---- MODULE Spec2Model ----
(***************************************************************************)
(* NestedSampler (DIAMONDS, early single-ellipsoid version): the evidence  *)
(* accumulation loop of NestedSampler::run, modelled statement by          *)
(* statement.                                                              *)
(*                                                                         *)
(* Doubles are fixed-point integers: the integer v stands for the real     *)
(* v / Scale.  exp and log are the fixed-point tables ExpTable / LogTable  *)
(* and every formula of the code is computed from them in the order the    *)
(* code computes it.                                                       *)
(***************************************************************************)
EXTENDS Integers, Sequences, FiniteSets

\* ---------------------------------------------------------------- bounds
MaxNobjects == 3
MaxNiter == 3
MaxParam == 3
MaxClock == 1

\* ------------------------------------------------------------- numerics
\* resolution of the fixed-point representation of a double
Scale == 12

\* logEvidence(-DBL_MAX) in the constructor's initialiser list
NegDblMax == -1000000

\* ExpTable[d + 1] = round(Scale * exp(-d / Scale)), d = 0 .. 39
ExpTable ==
  << 12, 11, 10, 9, 9, 8, 7, 7, 6, 6, 5, 5, 4, 4, 4, 3, 3, 3, 3, 2,
     2, 2, 2, 2, 2, 1, 1, 1, 1, 1, 1, 1, 1, 1, 1, 1, 1, 1, 1, 0 >>

\* LogTable[v] = round(Scale * ln(v / Scale)), v = 1 .. 2 * Scale
LogTable ==
  << -30, -22, -17, -13, -11, -8, -6, -5, -3, -2, -1, 0,
     1, 2, 3, 3, 4, 5, 6, 6, 7, 7, 8, 8 >>

\* exp(x): the table for x <= 0, underflowing to 0 as the double does, and
\* its reciprocal for x > 0, saturating where the table ends
ExpFix(x) ==
  IF x <= 0
  THEN IF -x >= Len(ExpTable) THEN 0 ELSE ExpTable[1 - x]
  ELSE IF x >= Len(ExpTable) - 1
       THEN Scale * Scale
       ELSE (Scale * Scale) \div ExpTable[1 + x]

\* log(v) for 0 < v <= 2
LogFix(v) == LogTable[v]

Abs(x) == IF x < 0 THEN -x ELSE x

\* sqrt(x): largest r with r * r <= Scale * x  (x >= 0)
RECURSIVE SqrtUp(_, _)
SqrtUp(x, r) == IF (r + 1) * (r + 1) > Scale * x THEN r ELSE SqrtUp(x, r + 1)
SqrtFix(x) == SqrtUp(x, 0)

\* MathExtra::logExpSum(x, y) = log(exp(x) + exp(y)), in the log domain
LogExpSum(x, y) ==
  IF x >= y THEN x + LogFix(Scale + ExpFix(y - x))
            ELSE y + LogFix(Scale + ExpFix(x - y))

\* ------------------------------------------------- likelihood and draws
Params == 0 .. MaxParam

\* the likelihood is a pure function of the parameter value; two parameter
\* values share each level, so exact ties occur
LogLikelihoodOf(p) == Scale * ((p \div 2) - 1)

\* RandomVariate::drawNestedValueWithConstraint: the point stays where it is
\* unless the candidate lies strictly above the constraint
DrawNestedValueWithConstraint(p, constraint, cand) ==
  IF LogLikelihoodOf(cand) > constraint THEN cand ELSE p

\* --------------------------------------------------------------- rand()
RandModulus == 16
\* one step of the generator behind rand()
NextRand(s) == (5 * s + 3) % RandModulus
\* srand(seed)
SeedOf(t) == t % RandModulus

\* ---------------------------------------------------------------- state
VARIABLES
  pc,                              \* position in NestedSampler::run
  Nobjects, Niter,                 \* arguments of run
  param, logLikelihood,            \* live points, slots 0 .. Nobjects-1
  logWeight,                       \* vector of size Niter
  posteriorSample,
  logLikelihoodOfPosteriorSample,
  logEvidence, informationH, logEvidenceError,
  logWidthInPriorMass, logLikelihoodConstraint, logEvidenceNew,
  copy, worst, nest,               \* locals of run
  clock,                           \* what time(0) last returned
  rngState,                        \* state of the process-wide generator
  stream,                          \* values randomVariate has yielded so far
  drawPos,                         \* how many of them this execution has used
  execution,                       \* 1, or 2 for a repeated execution
  first                            \* outcome of execution 1, once repeated

vars == << pc, Nobjects, Niter, param, logLikelihood, logWeight,
           posteriorSample, logLikelihoodOfPosteriorSample, logEvidence,
           informationH, logEvidenceError, logWidthInPriorMass,
           logLikelihoodConstraint, logEvidenceNew, copy, worst, nest,
           clock, rngState, stream, drawPos, execution, first >>

samplerVars == << param, logLikelihood, logWeight, posteriorSample,
                  logLikelihoodOfPosteriorSample, logEvidence, informationH,
                  logEvidenceError >>
localVars == << logWidthInPriorMass, logLikelihoodConstraint, logEvidenceNew,
                copy, worst, nest >>
replayVars == << execution, first >>

\* a value the program has not assigned
Indeterminate == "indeterminate"

\* vector<T> of size n, value-initialised
Resized(n) == [i \in 0 .. n - 1 |-> 0]

\* ------------------------------------------------------------ operators
\* log(1.0 - exp(-1.0 / Nobjects))
InitialLogWidth(N) == LogFix(Scale - ExpFix(-(Scale \div N)))

\* "1 / Nobjects" in integer arithmetic
WidthStepInteger(N) == Scale * (1 \div N)

\* 1.0 / Nobjects
WidthStep(N) == Scale \div N

\* the scan "worst = 0; for (i = 1; i < Nobjects; i++) if (ll[i] < ll[worst]) worst = i"
RECURSIVE ScanWorst(_, _, _, _)
ScanWorst(ll, i, w, N) ==
  IF i >= N THEN w
  ELSE ScanWorst(ll, i + 1, IF ll[i] < ll[w] THEN i ELSE w, N)

\* the scan with ">" for "<"
RECURSIVE ScanBest(_, _, _, _)
ScanBest(ll, i, w, N) ==
  IF i >= N THEN w
  ELSE ScanBest(ll, i + 1, IF ll[i] > ll[w] THEN i ELSE w, N)
WorstOfGreatest(ll, N) == ScanBest(ll, 1, 0, N)

\* the scan with "<=" for "<"
RECURSIVE ScanLast(_, _, _, _)
ScanLast(ll, i, w, N) ==
  IF i >= N THEN w
  ELSE ScanLast(ll, i + 1, IF ll[i] <= ll[w] THEN i ELSE w, N)
WorstOfLastMinimum(ll, N) == ScanLast(ll, 1, 0, N)

\* the scan started at i = 2
WorstOfSkippingOne(ll, N) == ScanWorst(ll, 2, 0, N)

WorstOf(ll, N) == ScanWorst(ll, 1, 0, N)

\* logWeight.at(worst) = logWidthInPriorMass + logLikelihood.at(worst)
WeightedWorst(w) ==
  [logWeight EXCEPT ![w] = logWidthInPriorMass + logLikelihood[w]]

\* "logEvidenceNew = logWeight.at(worst)"
EvidenceOverwritten(lw) == lw

\* logEvidenceNew = MathExtra::logExpSum(logEvidence, logWeight.at(worst))
EvidenceWith(lw) == LogExpSum(logEvidence, lw)

\* NestedSampler::updateInformationGain, reading logWeight lw and logLikelihood
UpdateInformationGain(H_old, logEvidence_old, logEvidence_new, w, lw) ==
    (ExpFix(lw[w] - logEvidence_new) * logLikelihood[w]) \div Scale
  + (ExpFix(logEvidence_old - logEvidence_new) * (H_old + logEvidence_old)) \div Scale
  - logEvidence_new

\* "posteriorSample.at(worst) = param.at(worst)"
SavedSampleAtWorst(n, w) == [posteriorSample EXCEPT ![w] = param[w]]

\* posteriorSample.at(nest) = param.at(worst)
SavedSample(n, w) == [posteriorSample EXCEPT ![n] = param[w]]

\* logLikelihoodOfPosteriorSample.at(nest) = logLikelihood.at(worst)
SavedLogLikelihood(n, w) ==
  [logLikelihoodOfPosteriorSample EXCEPT ![n] = logLikelihood[w]]

\* "param.at(copy)" overwritten and evolved in place of param.at(worst)
EvolvedParamAtCopy(w, p) == [param EXCEPT ![copy] = p]

\* param.at(worst) = param.at(copy), then evolved by the constrained draw to p
EvolvedParam(w, p) == [param EXCEPT ![w] = p]

\* the values the stream yields at position j (1-based): fixed once yielded
StreamAt(j) == IF j <= Len(stream) THEN {stream[j]} ELSE Params

\* the stream after position j has yielded v
Yielded(j, v) == IF j <= Len(stream) THEN stream ELSE Append(stream, v)

\* ----------------------------------------------------------------- Init
Init ==
  /\ pc = "constructed"
  /\ Nobjects = 0
  /\ Niter = 0
  /\ param = << >>
  /\ logLikelihood = << >>
  /\ logWeight = << >>
  /\ posteriorSample = << >>
  /\ logLikelihoodOfPosteriorSample = << >>
  /\ logEvidence = NegDblMax
  /\ informationH = 0
  /\ logEvidenceError = Indeterminate
  /\ logWidthInPriorMass = 0
  /\ logLikelihoodConstraint = 0
  /\ logEvidenceNew = 0
  /\ copy = 0
  /\ worst = 0
  /\ nest = 0
  /\ clock = 0
  /\ rngState = SeedOf(1)
  /\ stream = << >>
  /\ drawPos = 0
  /\ execution = 1
  /\ first = << >>

\* ------------------------------------------------------------- actions
\* run(Nobjects, Niter) up to the loop: resize, drawNestedValues, initial width
Enter(N, It, init) ==
  /\ Nobjects' = N
  /\ Niter' = It
  /\ param' = [i \in 0 .. N - 1 |-> init[i + 1]]
  /\ logLikelihood' = [i \in 0 .. N - 1 |-> LogLikelihoodOf(init[i + 1])]
  /\ logWeight' = Resized(It)
  /\ posteriorSample' = Resized(It)
  /\ logLikelihoodOfPosteriorSample' = Resized(It)
  /\ logWidthInPriorMass' = InitialLogWidth(N)
  /\ nest' = 0
  /\ drawPos' = N
  /\ pc' = "loop"

Run ==
  /\ pc = "constructed"
  /\ \E N \in 1 .. MaxNobjects, It \in 0 .. MaxNiter :
       \E init \in [1 .. N -> Params] :
         /\ Enter(N, It, init)
         /\ stream' = init
  /\ UNCHANGED << logEvidence, informationH, logEvidenceError,
                  logLikelihoodConstraint, logEvidenceNew, copy, worst,
                  clock, rngState, replayVars >>

\* loop body up to srand(time(0)), when logWeight.at(worst) is in range
NestAccumulate ==
  /\ pc = "loop"
  /\ nest < Niter
  /\ LET w == WorstOf(logLikelihood, Nobjects)
         lw == WeightedWorst(w)
         new == EvidenceWith(lw[w])
     IN /\ w < Niter
        /\ worst' = w
        /\ logWeight' = lw
        /\ logEvidenceNew' = new
        /\ informationH' = UpdateInformationGain(informationH, logEvidence, new, w, lw)
        /\ logEvidence' = new
        /\ posteriorSample' = SavedSample(nest, w)
        /\ logLikelihoodOfPosteriorSample' = SavedLogLikelihood(nest, w)
  /\ \E t \in clock .. MaxClock :
       /\ clock' = t
       /\ rngState' = SeedOf(t)
  /\ pc' = "pick"
  /\ UNCHANGED << Nobjects, Niter, param, logLikelihood, logEvidenceError,
                  logWidthInPriorMass, logLikelihoodConstraint, copy, nest,
                  stream, drawPos, replayVars >>

\* logWeight.at(worst) with worst >= logWeight.size(): std::out_of_range leaves run
NestOutOfRange ==
  /\ pc = "loop"
  /\ nest < Niter
  /\ WorstOf(logLikelihood, Nobjects) >= Niter
  /\ worst' = WorstOf(logLikelihood, Nobjects)
  /\ pc' = "out_of_range"
  /\ UNCHANGED << Nobjects, Niter, samplerVars, logWidthInPriorMass,
                  logLikelihoodConstraint, logEvidenceNew, copy, nest,
                  clock, rngState, stream, drawPos, replayVars >>

\* one pass of "do copy = rand() % Nobjects; while (copy == worst && Nobjects > 1)"
PickCopy ==
  /\ pc = "pick"
  /\ rngState' = NextRand(rngState)
  /\ copy' = NextRand(rngState) % Nobjects
  /\ pc' = IF NextRand(rngState) % Nobjects = worst /\ Nobjects > 1
           THEN "pick" ELSE "replace"
  /\ UNCHANGED << Nobjects, Niter, samplerVars, logWidthInPriorMass,
                  logLikelihoodConstraint, logEvidenceNew, worst, nest,
                  clock, stream, drawPos, replayVars >>

\* overwrite the worst slot with the survivor, evolve it, shrink, nest++
Replace ==
  /\ pc = "replace"
  /\ logLikelihoodConstraint' = logLikelihood[worst]
  /\ \E cand \in StreamAt(drawPos + 1) :
       LET p == DrawNestedValueWithConstraint(param[copy], logLikelihood[worst], cand)
       IN /\ param' = EvolvedParam(worst, p)
          /\ logLikelihood' = [logLikelihood EXCEPT ![worst] = LogLikelihoodOf(p)]
          /\ stream' = Yielded(drawPos + 1, cand)
  /\ drawPos' = drawPos + 1
  /\ logWidthInPriorMass' = logWidthInPriorMass - WidthStep(Nobjects)
  /\ nest' = nest + 1
  /\ pc' = "loop"
  /\ UNCHANGED << Nobjects, Niter, logWeight, posteriorSample,
                  logLikelihoodOfPosteriorSample, logEvidence, informationH,
                  logEvidenceError, logEvidenceNew, copy, worst, clock,
                  rngState, replayVars >>

\* loop exit: logEvidenceError = sqrt(fabs(informationH) / Nobjects); return
Finish ==
  /\ pc = "loop"
  /\ nest >= Niter
  /\ logEvidenceError' = SqrtFix(Abs(informationH) \div Nobjects)
  /\ pc' = "done"
  /\ UNCHANGED << Nobjects, Niter, param, logLikelihood, logWeight,
                  posteriorSample, logLikelihoodOfPosteriorSample, logEvidence,
                  informationH, localVars, clock, rngState, stream, drawPos,
                  replayVars >>

Next == Run \/ NestAccumulate \/ NestOutOfRange \/ PickCopy \/ Replace \/ Finish

Spec == Init /\ [][Next]_vars

\* -------------------------------------------------- a second execution
\* what an execution leaves behind: how run ended and the public results
Outcome ==
  [ended |-> pc,
   logEvidence |-> logEvidence,
   informationH |-> informationH,
   posteriorSample |-> posteriorSample,
   logLikelihoodOfPosteriorSample |-> logLikelihoodOfPosteriorSample]

\* the program is executed again: a new process (generator in its initial
\* state, time moving on), a newly constructed sampler, the same arguments
\* of run, and a randomVariate that yields the same stream again
Rerun ==
  /\ execution = 1
  /\ pc \in {"done", "out_of_range"}
  /\ first' = Outcome
  /\ execution' = 2
  /\ logEvidence' = NegDblMax
  /\ informationH' = 0
  /\ logEvidenceError' = Indeterminate
  /\ Enter(Nobjects, Niter, SubSeq(stream, 1, Nobjects))
  /\ rngState' = SeedOf(1)
  /\ UNCHANGED << logLikelihoodConstraint, logEvidenceNew, copy, worst,
                  clock, stream >>

NextTwice == Next \/ Rerun

SpecTwice == Init /\ [][NextTwice]_vars

\* ---------------------------------------------------------- properties
\* number of posterior entries written so far in this execution
Retired == IF pc \in {"pick", "replace"} THEN nest + 1 ELSE nest

Slots == 0 .. Nobjects - 1

\* C1: the likelihood floor never decreases: for retired entries n < m,
\* logLikelihoodOfPosteriorSample[n] <= logLikelihoodOfPosteriorSample[m]
C1_FloorNonDecreasing ==
  \A n \in 0 .. Retired - 1 : \A m \in 0 .. Retired - 1 :
    n < m => logLikelihoodOfPosteriorSample[n] <= logLikelihoodOfPosteriorSample[m]

\* the floor rose between two iterations
C1_Witness ==
  /\ pc = "loop"
  /\ nest >= 2
  /\ logLikelihoodOfPosteriorSample[0] < logLikelihoodOfPosteriorSample[1]

\* C2: at the end of an iteration every live point, the replaced slot
\* included, has logLikelihood >= the logLikelihood of the point just retired
C2_LiveAboveFloor ==
  (pc \in {"loop", "done", "out_of_range"} /\ nest > 0) =>
    /\ logLikelihoodConstraint = logLikelihoodOfPosteriorSample[nest - 1]
    /\ \A i \in Slots : logLikelihood[i] >= logLikelihoodOfPosteriorSample[nest - 1]

\* an iteration has ended with the replaced slot evolved strictly above the floor
C2_Witness ==
  /\ pc = "loop"
  /\ nest > 0
  /\ Nobjects > 1
  /\ logLikelihood[worst] > logLikelihoodConstraint
  /\ \E i \in Slots : logLikelihood[i] = logLikelihoodConstraint

\* C3: iteration n writes entry n of the posterior sample with the parameter
\* and logLikelihood the worst live point had before replacement, and no step
\* changes an entry already written
C3_PosteriorAppendOnly ==
  [][ /\ \A k \in 0 .. Retired - 1 :
           /\ posteriorSample'[k] = posteriorSample[k]
           /\ logLikelihoodOfPosteriorSample'[k] = logLikelihoodOfPosteriorSample[k]
      /\ (pc = "loop" /\ pc' = "pick") =>
           /\ nest' = nest
           /\ posteriorSample'[nest] = param[worst']
           /\ logLikelihoodOfPosteriorSample'[nest] = logLikelihood[worst']
           /\ \A i \in Slots : logLikelihoodOfPosteriorSample'[nest] <= logLikelihood[i]
    ]_vars

\* two entries are written, they differ, and the slot of the last retired
\* point has since been replaced by a different point
C3_Witness ==
  /\ pc = "loop"
  /\ nest >= 2
  /\ posteriorSample[0] # posteriorSample[1]
  /\ param[worst] # posteriorSample[nest - 1]

\* C4: entry n of logWeight is the log weight of posterior entry n: the width
\* used in iteration n plus the logLikelihood of the point retired in it
C4_WeightPerEntry ==
  \A n \in 0 .. Retired - 1 :
    logWeight[n] = InitialLogWidth(Nobjects) - n * WidthStep(Nobjects)
                   + logLikelihoodOfPosteriorSample[n]

\* C5: the selected worst slot holds the minimum logLikelihood and is the
\* lowest index that does
C5_WorstIsFirstMinimum ==
  pc \in {"pick", "replace", "out_of_range"} =>
    /\ worst \in Slots
    /\ \A i \in Slots : logLikelihood[worst] <= logLikelihood[i]
    /\ \A i \in Slots : i < worst => logLikelihood[i] > logLikelihood[worst]

\* the minimum is shared by a later slot, and the worst is not slot 0
C5_Witness ==
  /\ pc = "pick"
  /\ worst > 0
  /\ \E i \in Slots : i > worst /\ logLikelihood[i] = logLikelihood[worst]

\* C6: logEvidence starts at -DBL_MAX, never decreases, and changes only to
\* logEvidenceNew = logExpSum(logEvidence, logWeight of the retired point)
C6_EvidenceNonDecreasing ==
  /\ [](pc = "constructed" => logEvidence = NegDblMax)
  /\ [][ /\ logEvidence' >= logEvidence
         /\ logEvidence' # logEvidence => logEvidence' = logEvidenceNew'
         /\ (pc = "loop" /\ pc' = "pick") =>
              /\ logEvidence' = logEvidenceNew'
              /\ logEvidenceNew' = LogExpSum(logEvidence, logWeight'[worst'])
       ]_vars

\* in a later iteration the accumulated evidence exceeds the weight just added
C6_Witness ==
  /\ pc = "pick"
  /\ nest >= 1
  /\ logEvidence > logWeight[worst]

\* C7: the width is the initial width minus nest / Nobjects, the weight of an
\* iteration is computed with the width before that iteration's shrink, and
\* the width strictly decreases from one iteration to the next
C7_WidthSchedule ==
  /\ [](pc # "constructed" =>
          Nobjects * logWidthInPriorMass =
            Nobjects * InitialLogWidth(Nobjects) - nest * Scale)
  /\ [][ /\ (pc = "loop" /\ pc' = "pick") =>
              /\ logWeight'[worst'] = logWidthInPriorMass + logLikelihood[worst']
              /\ logWidthInPriorMass' = logWidthInPriorMass
         /\ (pc # "constructed" /\ nest' = nest + 1) =>
              logWidthInPriorMass' < logWidthInPriorMass
         /\ (pc # "constructed" /\ nest' = nest) =>
              logWidthInPriorMass' = logWidthInPriorMass
       ]_vars

\* a weight has been computed with a width that was shrunk twice
C7_Witness ==
  /\ pc = "pick"
  /\ nest = 2
  /\ Nobjects > 1
  /\ logWeight[worst] = InitialLogWidth(Nobjects) - 2 * WidthStep(Nobjects)
                        + logLikelihood[worst]

\* C8: whenever run has stopped it has returned normally after exactly
\* Niter iterations
C8_RunsAllIterations ==
  pc \in {"done", "out_of_range"} => (pc = "done" /\ nest = Niter)

\* C10: after run the posterior sample holds the Niter retired points
\* followed by the Nobjects surviving live points
C10_SurvivorsAppended ==
  pc = "done" => Cardinality(DOMAIN posteriorSample) = Niter + Nobjects

\* C9: when run returns in two executions with the same arguments, the same
\* initial live points and the same random stream, both leave the same
\* logEvidence, informationH and posterior sample
C9_SameOutcome ==
  (execution = 2 /\ pc = "done" /\ first.ended = "done") => Outcome = first

\* C11: an iteration keeps the number of live points and changes the live set
\* at the worst slot only: for every slot i # worst, param[i] and
\* logLikelihood[i] are the same before and after every step of run
C11_OnlyWorstSlotChanges ==
  [][ pc # "constructed" =>
        /\ Nobjects' = Nobjects
        /\ DOMAIN param' = DOMAIN param
        /\ DOMAIN logLikelihood' = DOMAIN logLikelihood
        /\ \A i \in Slots :
             (param'[i] # param[i] \/ logLikelihood'[i] # logLikelihood[i]) =>
               (pc = "replace" /\ i = worst)
    ]_vars

\* an iteration has ended with the worst slot holding a different point than
\* the one retired from it, next to a slot that was not the worst
C11_Witness ==
  /\ pc = "loop"
  /\ nest > 0
  /\ Nobjects > 1
  /\ copy # worst
  /\ param[worst] # posteriorSample[nest - 1]

\* C12: no bounds-checked access of run is out of range: run never ends in
\* std::out_of_range, and the worst slot index is inside logWeight whenever
\* an iteration is about to use it
C12_IndicesInRange ==
  /\ pc # "out_of_range"
  /\ (pc = "loop" /\ nest < Niter) =>
       WorstOf(logLikelihood, Nobjects) \in DOMAIN logWeight

====
